---------------------------- MODULE Spec2Model ----------------------------
(***************************************************************************)
(* Ledger, budget, savings and notification engine of the Cash tracker.    *)
(*                                                                         *)
(* The model covers DatabaseManager (src/core/database.py), the alert,     *)
(* budget and goal arithmetic and the amount validation                    *)
(* (src/core/utils.py, src/core/models.py), NotificationManager            *)
(* (src/core/notifications.py), the save actions of the transaction and    *)
(* budget dialogs (src/ui/dialogs) and the scheduler process               *)
(* (src/run_scheduler.py).  The operations of the stores are               *)
(* modelled as calls on a manager that is bound to the database file whose *)
(* tables were declared by the CREATE TABLE statements of the repository:  *)
(* either DatabaseManager.init_db on a new file, or create_sample_database *)
(* (src/sample/sample_data.py), the file config.DB_PATH points at.         *)
(*                                                                         *)
(* Amounts are REAL columns in the code; the model uses integers, on which *)
(* the sums and the comparisons spent/limit*100 >= threshold of the code   *)
(* are exact.  TEXT values that the code compares (dates) are sequences of *)
(* character codes, compared bytewise as SQLite's BINARY collation does.   *)
(***************************************************************************)
EXTENDS Integers, Sequences, FiniteSets, TLC

(***************************************************************************)
(* Bounds of the model.                                                    *)
(***************************************************************************)
MaxTransactionId == 2
MaxBudgetId == 2
MaxGoalId == 2
MaxDispatch == 2
MaxAmountLen == 2
MaxCaught == 2

(***************************************************************************)
(* Text: f-string formatting, strftime("%Y-%m-%d") and bytewise order.     *)
(***************************************************************************)
Dash == 45

Digit(n) == 48 + (n % 10)

\* f"{n:04d}" for 0 <= n <= 9999
Fmt04d(n) == << Digit(n \div 1000), Digit(n \div 100), Digit(n \div 10), Digit(n) >>

\* f"{n:02d}" for 0 <= n <= 99
Fmt02d(n) == << Digit(n \div 10), Digit(n) >>

\* strftime("%Y-%m-%d") of the calendar date y-m-d
IsoDate(y, m, d) == Fmt04d(y) \o <<Dash>> \o Fmt02d(m) \o <<Dash>> \o Fmt02d(d)

\* SQLite BINARY collation: memcmp on the common prefix, then the length
TextLess(a, b) ==
    LET n == IF Len(a) < Len(b) THEN Len(a) ELSE Len(b)
    IN  \/ \E i \in 1..n : a[i] < b[i] /\ \A j \in 1..(i - 1) : a[j] = b[j]
        \/ Len(a) < Len(b) /\ \A j \in 1..n : a[j] = b[j]

TextLeq(a, b) == a = b \/ TextLess(a, b)

(***************************************************************************)
(* Input domains.                                                          *)
(***************************************************************************)
\* wall-clock dates of the days on which the program runs, in time order
Clock ==
    << [year |-> 2024, month |-> 11, day |-> 30],
       [year |-> 2024, month |-> 12, day |-> 1],
       [year |-> 2024, month |-> 12, day |-> 31],
       [year |-> 2025, month |-> 1,  day |-> 1],
       [year |-> 2025, month |-> 1,  day |-> 31] >>

NumDays == Len(Clock)

Days == 1..NumDays

\* datetime.now().date().isoformat() and datetime.now().strftime("%Y-%m-%d")
TodayText(i) == IsoDate(Clock[i].year, Clock[i].month, Clock[i].day)

\* the (year, month) arguments the callers pass
Years == { 2024, 2025 }

Types == { "Income", "Expense" }

\* category names with their rank in bytewise order (ORDER BY category)
CategoryRank == [ Bills |-> 1, Food |-> 2, Other |-> 3 ]

Categories == DOMAIN CategoryRank

Amounts == { 40, 50 }

Limits == { 0, 50, 100 }

\* the executions of send_daily_reminder that may be under way at once
Runs == { 1, 2 }

(***************************************************************************)
(* State.                                                                  *)
(***************************************************************************)
VARIABLES
    schema,             \* which CREATE TABLE statements built the database file
    transactions,       \* rows of table transactions
    transactions_seq,   \* sqlite_sequence entry of table transactions
    budgets,            \* rows of table budgets
    budgets_seq,        \* sqlite_sequence entry of table budgets
    savings_goals,      \* rows of table savings_goals
    savings_goals_seq,  \* sqlite_sequence entry of table savings_goals
    last_notification,  \* last_notification.json: existence and key -> date
    now,                \* index in Clock of the current day
    reminders,          \* day -> daily reminders the transport accepted
    alerts,             \* <<category, day>> -> budget alerts the transport accepted
    warned,             \* <<category, day>> -> a WARNING alert was accepted
    pc,                 \* run -> its position in send_daily_reminder
    scheduler,          \* run_scheduler.py: the process and the jobs it ran
    ret                 \* the last call: operation, arguments, exception, value

store == << schema, transactions, transactions_seq, budgets, budgets_seq,
            savings_goals, savings_goals_seq >>

vars == << schema, transactions, transactions_seq, budgets, budgets_seq,
           savings_goals, savings_goals_seq, last_notification, now,
           reminders, alerts, warned, pc, scheduler, ret >>

\* Python None / SQL NULL
None == "None"

NoError == "none"

(***************************************************************************)
(* Schema: the columns each CREATE TABLE statement declares.               *)
(***************************************************************************)
\* init_db and create_sample_database declare the same transactions table
TransactionColumns == { "id", "date", "type", "category", "amount", "created_at" }

\* init_db's statements for categories and savings_goals ("INTEGER PRIMIRY
\* KEY AUTOINCREMENT") are rejected by SQLite's parser: a file built by
\* init_db holds the first two tables only
Tables ==
    IF schema = "init_db" THEN { "transactions", "budgets" }
    ELSE { "transactions", "budgets", "categories", "savings_goals" }

Max(S) == CHOOSE x \in S : \A y \in S : y <= x

RowIds(rows) == { r.id : r \in rows }

\* INTEGER PRIMARY KEY AUTOINCREMENT: one more than the largest rowid the
\* table ever held
NextRowId(rows, seq) == Max(RowIds(rows) \cup { seq }) + 1

\* sum of column amount over rows
RECURSIVE Total(_)
Total(rows) ==
    IF rows = {} THEN 0
    ELSE LET r == CHOOSE x \in rows : TRUE
         IN  r.amount + Total(rows \ { r })

\* SUM(CASE WHEN type = t THEN amount ELSE 0 END) over rows
CaseTotal(rows, t) == Total({ r \in rows : r.type = t })

\* an SQL aggregate result: NULL over no row, else the value
SqlSum(rows, value) == [ null |-> rows = {}, value |-> value ]

\* Python "x or 0" on an aggregate result
OrZero(x) == IF x.null \/ x.value = 0 THEN 0 ELSE x.value

\* COALESCE(x, 0)
Coalesce0(x) == IF x.null THEN 0 ELSE x.value

(***************************************************************************)
(* Ledger store (src/core/database.py).                                    *)
(***************************************************************************)
\* again: the call repeats the call before it, operation and arguments
Call(op, args, raised, val) ==
    ret' = [ op |-> op, args |-> args, raised |-> raised, val |-> val,
             again |-> ret.op = op /\ ret.args = args ]

\* create_sample_database: INSERT INTO transactions (date, type, category, amount)
sample_insert_transaction(date, type_, category, amount) ==
    /\ schema = "sample"
    /\ NextRowId(transactions, transactions_seq) <= MaxTransactionId
    /\ LET id == NextRowId(transactions, transactions_seq)
       IN  /\ transactions' = transactions \cup
                  { [ id |-> id, date |-> date, type |-> type_,
                      category |-> category, amount |-> amount ] }
           /\ transactions_seq' = id
           /\ Call("sample_insert_transaction", [ id |-> id ], NoError, None)
    /\ UNCHANGED << schema, budgets, budgets_seq, savings_goals,
                    savings_goals_seq, last_notification, now, reminders, alerts, warned,
                    pc, scheduler >>

\* INSERT INTO transactions (date, type, category, amount, description)
add_transaction(date, type_, category, amount, description) ==
    LET cols == { "date", "type", "category", "amount", "description" }
        id   == NextRowId(transactions, transactions_seq)
        args == [ date |-> date, type |-> type_, category |-> category,
                  amount |-> amount, description |-> description ]
    IN  IF cols \subseteq TransactionColumns
        THEN /\ id <= MaxTransactionId
             /\ transactions' = transactions \cup
                    { [ id |-> id, date |-> date, type |-> type_,
                        category |-> category, amount |-> amount ] }
             /\ transactions_seq' = id
             /\ Call("add_transaction", args, NoError, id)
             /\ UNCHANGED << schema, budgets, budgets_seq, savings_goals,
                             savings_goals_seq, last_notification, now,
                             reminders, alerts, warned, pc, scheduler >>
        ELSE \* "table transactions has no column named description"
             /\ Call("add_transaction", args, "OperationalError", None)
             /\ UNCHANGED << store, last_notification, now, reminders, alerts, warned, pc, scheduler >>

\* UPDATE transactions SET date, type, category, amount, description WHERE id
update_transaction(transaction_id, date, type_, category, amount, description) ==
    LET cols == { "date", "type", "category", "amount", "description", "id" }
        args == [ id |-> transaction_id, date |-> date, type |-> type_,
                  category |-> category, amount |-> amount,
                  description |-> description ]
    IN  IF cols \subseteq TransactionColumns
        THEN /\ transactions' =
                    { IF r.id = transaction_id
                      THEN [ id |-> r.id, date |-> date, type |-> type_,
                             category |-> category, amount |-> amount ]
                      ELSE r : r \in transactions }
             /\ Call("update_transaction", args, NoError, None)
             /\ UNCHANGED << schema, transactions_seq, budgets, budgets_seq,
                             savings_goals, savings_goals_seq,
                             last_notification, now, reminders, alerts, warned,
                             pc, scheduler >>
        ELSE \* "no such column: description", raised when the statement is prepared
             /\ Call("update_transaction", args, "OperationalError", None)
             /\ UNCHANGED << store, last_notification, now, reminders, alerts, warned, pc, scheduler >>

\* the DELETE without conn.commit(): closing the connection rolls it back
delete_transaction_without_commit(transaction_id) ==
    /\ Call("delete_transaction", [ id |-> transaction_id ], NoError, None)
    /\ UNCHANGED << store, last_notification, now, reminders, alerts, warned, pc, scheduler >>

\* DELETE FROM transactions WHERE id = ?
delete_transaction(transaction_id) ==
    /\ transactions' = { r \in transactions : r.id # transaction_id }
    /\ Call("delete_transaction", [ id |-> transaction_id ], NoError, None)
    /\ UNCHANGED << schema, transactions_seq, budgets, budgets_seq,
                    savings_goals, savings_goals_seq, last_notification, now,
                    reminders, alerts, warned, pc, scheduler >>

\* start_date and end_date of get_monthly_summary and get_budget_status
MonthStart(year, month) ==
    Fmt04d(year) \o <<Dash>> \o Fmt02d(month) \o <<Dash>> \o Fmt02d(1)

\* the upper bound without the step to the next year in December
MonthEndSameYear(year, month) ==
    IF month = 12
    THEN Fmt04d(year) \o <<Dash>> \o Fmt02d(1) \o <<Dash>> \o Fmt02d(1)
    ELSE Fmt04d(year) \o <<Dash>> \o Fmt02d(month + 1) \o <<Dash>> \o Fmt02d(1)

MonthEnd(year, month) ==
    IF month = 12
    THEN Fmt04d(year + 1) \o <<Dash>> \o Fmt02d(1) \o <<Dash>> \o Fmt02d(1)
    ELSE Fmt04d(year) \o <<Dash>> \o Fmt02d(month + 1) \o <<Dash>> \o Fmt02d(1)

\* the window with an inclusive upper bound: WHERE date >= ? AND date <= ?
InWindowInclusive(date, start_date, end_date) ==
    TextLeq(start_date, date) /\ TextLeq(date, end_date)

\* WHERE date >= ? AND date < ?
InWindow(date, start_date, end_date) ==
    TextLeq(start_date, date) /\ TextLess(date, end_date)

MonthlySummary(year, month) ==
    LET rows    == { r \in transactions :
                       InWindow(r.date, MonthStart(year, month), MonthEnd(year, month)) }
        income  == OrZero(SqlSum(rows, CaseTotal(rows, "Income")))
        expense == OrZero(SqlSum(rows, CaseTotal(rows, "Expense")))
    IN  [ income |-> income, expense |-> expense, balance |-> income - expense ]

get_monthly_summary(year, month) ==
    /\ Call("get_monthly_summary", [ year |-> year, month |-> month ], NoError,
            MonthlySummary(year, month))
    /\ UNCHANGED << store, last_notification, now, reminders, alerts, warned, pc, scheduler >>

\* the sequences that hold every row of rows exactly once
Arrangements(rows) ==
    { s \in [ 1..Cardinality(rows) -> rows ] :
        \A i, j \in DOMAIN s : i # j => s[i] # s[j] }

\* Python truth value of an optional text argument: None and "" are false
Supplied(text) == text # None /\ text # ""

\* the same for an optional date, where << >> stands for None and ""
SuppliedDate(date) == date # << >>

\* the filters with an exclusive upper bound: AND date < ?
MatchesFiltersEndExclusive(r, start_date, end_date, category, type_) ==
    /\ SuppliedDate(start_date) => TextLeq(start_date, r.date)
    /\ SuppliedDate(end_date) => TextLess(r.date, end_date)
    /\ Supplied(category) => r.category = category
    /\ Supplied(type_) => r.type = type_

\* WHERE 1=1 [AND date >= ?] [AND date <= ?] [AND category = ?] [AND type = ?]
MatchesFilters(r, start_date, end_date, category, type_) ==
    /\ SuppliedDate(start_date) => TextLeq(start_date, r.date)
    /\ SuppliedDate(end_date) => TextLeq(r.date, end_date)
    /\ Supplied(category) => r.category = category
    /\ Supplied(type_) => r.type = type_

\* ORDER BY date DESC; SQL leaves the order of rows with equal dates open
get_all_transactions(start_date, end_date, category, type_) ==
    LET rows == { r \in transactions :
                    MatchesFilters(r, start_date, end_date, category, type_) }
    IN  \E result \in { s \in Arrangements(rows) :
                           \A i, j \in DOMAIN s : i < j => TextLeq(s[j].date, s[i].date) } :
        /\ Call("get_all_transactions",
                [ start_date |-> start_date, end_date |-> end_date,
                  category |-> category, type |-> type_ ], NoError, result)
        /\ UNCHANGED << store, last_notification, now, reminders, alerts, warned, pc, scheduler >>

(***************************************************************************)
(* Budget tracker (src/core/database.py).                                  *)
(***************************************************************************)
\* a plain INSERT that keeps the row already holding the category
add_budget_insert_only(category, limit_amount) ==
    /\ NextRowId(budgets, budgets_seq) <= MaxBudgetId
    /\ LET id == NextRowId(budgets, budgets_seq)
       IN  /\ budgets' = budgets \cup
                  { [ id |-> id, category |-> category, limit_amount |-> limit_amount ] }
           /\ budgets_seq' = id
    /\ Call("add_budget", [ category |-> category, limit_amount |-> limit_amount ],
            NoError, None)
    /\ UNCHANGED << schema, transactions, transactions_seq, savings_goals,
                    savings_goals_seq, last_notification, now, reminders, alerts, warned,
                    pc, scheduler >>

\* INSERT OR REPLACE INTO budgets (category, limit_amount): the row that
\* holds the UNIQUE category is deleted, then the new row is inserted
add_budget(category, limit_amount) ==
    /\ NextRowId(budgets, budgets_seq) <= MaxBudgetId
    /\ LET id == NextRowId(budgets, budgets_seq)
       IN  /\ budgets' = { b \in budgets : b.category # category } \cup
                  { [ id |-> id, category |-> category, limit_amount |-> limit_amount ] }
           /\ budgets_seq' = id
    /\ Call("add_budget", [ category |-> category, limit_amount |-> limit_amount ],
            NoError, None)
    /\ UNCHANGED << schema, transactions, transactions_seq, savings_goals,
                    savings_goals_seq, last_notification, now, reminders, alerts, warned,
                    pc, scheduler >>

\* DELETE FROM budgets WHERE id = ?
delete_budget(budget_id) ==
    /\ budgets' = { b \in budgets : b.id # budget_id }
    /\ Call("delete_budget", [ id |-> budget_id ], NoError, None)
    /\ UNCHANGED << schema, transactions, transactions_seq, budgets_seq,
                    savings_goals, savings_goals_seq, last_notification, now,
                    reminders, alerts, warned, pc, scheduler >>

\* ORDER BY category: the rows as a sequence, smallest category first
RECURSIVE OrderByCategory(_)
OrderByCategory(rows) ==
    IF rows = {} THEN << >>
    ELSE LET first == CHOOSE r \in rows :
                          \A q \in rows : CategoryRank[r.category] <= CategoryRank[q.category]
         IN  << first >> \o OrderByCategory(rows \ { first })

\* the status computed with an inner join: budgets without a matching
\* expense produce no row
BudgetStatusInnerJoin(year, month) ==
    LET joined(b) == { t \in transactions :
                         /\ t.category = b.category
                         /\ t.type = "Expense"
                         /\ InWindow(t.date, MonthStart(year, month), MonthEnd(year, month)) }
        row(b)    == [ id |-> b.id, category |-> b.category,
                       limit_amount |-> b.limit_amount,
                       spent |-> Total(joined(b)) ]
    IN  OrderByCategory({ row(b) : b \in { x \in budgets : joined(x) # {} } })

\* budgets b LEFT JOIN transactions t ON b.category = t.category AND
\* t.type = 'Expense' AND t.date >= ? AND t.date < ? GROUP BY b.category
BudgetStatus(year, month) ==
    LET joined(b) == { t \in transactions :
                         /\ t.category = b.category
                         /\ t.type = "Expense"
                         /\ InWindow(t.date, MonthStart(year, month), MonthEnd(year, month)) }
        group(c)  == { b \in budgets : b.category = c }
        row(c)    == LET b == CHOOSE x \in group(c) : TRUE
                     IN  [ id |-> b.id, category |-> b.category,
                           limit_amount |-> b.limit_amount,
                           spent |-> Coalesce0(SqlSum(joined(b), Total(joined(b)))) ]
    IN  OrderByCategory({ row(c) : c \in { b.category : b \in budgets } })

\* the query without ORDER BY b.category: the rows come in any order
get_budget_status_unordered(year, month) ==
    /\ \E result \in Arrangements({ BudgetStatus(year, month)[i] :
                                       i \in DOMAIN BudgetStatus(year, month) }) :
           Call("get_budget_status", [ year |-> year, month |-> month ], NoError, result)
    /\ UNCHANGED << store, last_notification, now, reminders, alerts, warned, pc, scheduler >>

get_budget_status(year, month) ==
    /\ Call("get_budget_status", [ year |-> year, month |-> month ], NoError,
            BudgetStatus(year, month))
    /\ UNCHANGED << store, last_notification, now, reminders, alerts, warned, pc, scheduler >>

(***************************************************************************)
(* Savings tracker (src/core/database.py, src/core/models.py).             *)
(***************************************************************************)
\* INSERT INTO savings_goals (name, target_amount, current_amount, deadline)
add_savings_goal(name, target_amount, deadline) ==
    LET args == [ name |-> name, target_amount |-> target_amount, deadline |-> deadline ]
        id   == NextRowId(savings_goals, savings_goals_seq)
    IN  IF "savings_goals" \notin Tables
        THEN /\ Call("add_savings_goal", args, "OperationalError", None)
             /\ UNCHANGED << store, last_notification, now, reminders, alerts, warned, pc, scheduler >>
        ELSE IF \E g \in savings_goals : g.name = name
        THEN \* name TEXT UNIQUE
             /\ Call("add_savings_goal", args, "IntegrityError", None)
             /\ UNCHANGED << store, last_notification, now, reminders, alerts, warned, pc, scheduler >>
        ELSE /\ id <= MaxGoalId
             /\ savings_goals' = savings_goals \cup
                    { [ id |-> id, name |-> name, target_amount |-> target_amount,
                        current_amount |-> 0, deadline |-> deadline ] }
             /\ savings_goals_seq' = id
             /\ Call("add_savings_goal", args, NoError, id)
             /\ UNCHANGED << schema, transactions, transactions_seq, budgets,
                             budgets_seq, last_notification, now, reminders, alerts, warned,
                             pc, scheduler >>

\* UPDATE savings_goals SET current_amount = ? WHERE id = ?
update_savings_goal_amount(goal_id, current_amount) ==
    LET args == [ id |-> goal_id, current_amount |-> current_amount ]
    IN  IF "savings_goals" \notin Tables
        THEN /\ Call("update_savings_goal_amount", args, "OperationalError", None)
             /\ UNCHANGED << store, last_notification, now, reminders, alerts, warned, pc, scheduler >>
        ELSE /\ savings_goals' =
                    { IF g.id = goal_id
                      THEN [ g EXCEPT !.current_amount = current_amount ]
                      ELSE g : g \in savings_goals }
             /\ Call("update_savings_goal_amount", args, NoError, None)
             /\ UNCHANGED << schema, transactions, transactions_seq, budgets,
                             budgets_seq, savings_goals_seq, last_notification,
                             now, reminders, alerts, warned, pc, scheduler >>

\* DELETE FROM savings_goals WHERE id = ?
delete_savings_goal(goal_id) ==
    IF "savings_goals" \notin Tables
    THEN /\ Call("delete_savings_goal", [ id |-> goal_id ], "OperationalError", None)
         /\ UNCHANGED << store, last_notification, now, reminders, alerts, warned, pc, scheduler >>
    ELSE /\ savings_goals' = { g \in savings_goals : g.id # goal_id }
         /\ Call("delete_savings_goal", [ id |-> goal_id ], NoError, None)
         /\ UNCHANGED << schema, transactions, transactions_seq, budgets,
                         budgets_seq, savings_goals_seq, last_notification,
                         now, reminders, alerts, warned, pc, scheduler >>

\* SELECT * FROM savings_goals ORDER BY deadline; rows with equal deadlines
\* come in an order SQL leaves open
get_all_savings_goals ==
    IF "savings_goals" \notin Tables
    THEN /\ Call("get_all_savings_goals", None, "OperationalError", None)
         /\ UNCHANGED << store, last_notification, now, reminders, alerts, warned, pc, scheduler >>
    ELSE \E result \in { s \in Arrangements(savings_goals) :
                            \A i, j \in DOMAIN s : i < j => TextLeq(s[i].deadline, s[j].deadline) } :
         /\ Call("get_all_savings_goals", None, NoError, result)
         /\ UNCHANGED << store, last_notification, now, reminders, alerts, warned, pc, scheduler >>

(***************************************************************************)
(* Storage failures (src/core/database.py).  sqlite3 raises                *)
(* OperationalError from connect, execute or commit when the file stays    *)
(* locked for DB_TIMEOUT seconds or cannot be read or written.  No method  *)
(* of DatabaseManager has an except clause, and get_connection closes the  *)
(* connection in its finally clause, which rolls back what the statement   *)
(* wrote and commit did not make durable.                                  *)
(***************************************************************************)
Locked == "OperationalError: database is locked"

\* the failure taken for a normal return of the method
storage_failure_swallowed(op, args) ==
    /\ Call(op, args, NoError, None)
    /\ UNCHANGED << store, last_notification, now, reminders, alerts, warned,
                    pc, scheduler >>

\* a call of method op that meets the failure
storage_failure(op, args) ==
    /\ Call(op, args, Locked, None)
    /\ UNCHANGED << store, last_notification, now, reminders, alerts, warned,
                    pc, scheduler >>

(***************************************************************************)
(* Alert classification (src/core/notifications.py, src/core/utils.py).    *)
(***************************************************************************)
\* "(spent / limit * 100) if limit > 0 else 0" compared with a threshold:
\* percentage >= threshold
PercentageAtLeast(spent, limit, threshold) ==
    IF limit > 0 THEN spent * 100 >= threshold * limit ELSE 0 >= threshold

\* "(spent / limit_amount) * 100 >= threshold" for limit_amount # 0
RatioAtLeast(spent, limit_amount, threshold) ==
    IF limit_amount > 0 THEN spent * 100 >= threshold * limit_amount
    ELSE spent * 100 <= threshold * limit_amount

\* the classification with strict comparisons: percentage > 100, > 80
AlertStatusStrict(spent, limit) ==
    IF limit > 0 /\ spent * 100 > 100 * limit THEN "EXCEEDED"
    ELSE IF limit > 0 /\ spent * 100 > 80 * limit THEN "WARNING"
    ELSE None

\* the status send_budget_alert puts in the message, None when it returns
\* False without sending
AlertStatus(spent, limit) ==
    IF PercentageAtLeast(spent, limit, 100) THEN "EXCEEDED"
    ELSE IF PercentageAtLeast(spent, limit, 80) THEN "WARNING"
    ELSE None

\* thresholds calculate_budget_alerts imports from config
BUDGET_WARNING_THRESHOLD == 80

BUDGET_DANGER_THRESHOLD == 100

\* the entries without the elif branch of the warning threshold
AlertEntriesWithoutWarning(budget) ==
    IF budget.limit_amount = 0 THEN << >>
    ELSE IF RatioAtLeast(budget.spent, budget.limit_amount, BUDGET_DANGER_THRESHOLD)
         THEN << [ type |-> "exceeded", category |-> budget.category ] >>
    ELSE << >>

\* the alerts calculate_budget_alerts appends for one budget status row
AlertEntries(budget) ==
    IF budget.limit_amount = 0 THEN << >>
    ELSE IF RatioAtLeast(budget.spent, budget.limit_amount, BUDGET_DANGER_THRESHOLD)
         THEN << [ type |-> "exceeded", category |-> budget.category ] >>
    ELSE IF RatioAtLeast(budget.spent, budget.limit_amount, BUDGET_WARNING_THRESHOLD)
         THEN << [ type |-> "warning", category |-> budget.category ] >>
    ELSE << >>

RECURSIVE calculate_budget_alerts(_)
calculate_budget_alerts(budget_status) ==
    IF budget_status = << >> THEN << >>
    ELSE AlertEntries(Head(budget_status)) \o calculate_budget_alerts(Tail(budget_status))

(***************************************************************************)
(* Notification manager (src/core/notifications.py).                       *)
(***************************************************************************)
\* data.get(key) == today on the content of last_notification.json
SentToday(file, key, today) ==
    file.exists /\ key \in DOMAIN file.data /\ file.data[key] = today

\* the check without the comparison against today's date
should_send_daily_reminder_always == TRUE

should_send_daily_reminder == ~SentToday(last_notification, "last_daily_reminder", TodayText(now))

\* the file written from an empty dict, without the load of what it held
MarkSentWithoutLoad(file, notification_type, today) ==
    [ exists |-> TRUE,
      data   |-> [ k \in { notification_type } |-> today ] ]

\* the file after mark_notification_sent(notification_type)
MarkSent(file, notification_type, today) ==
    LET data == IF file.exists THEN file.data ELSE << >>
    IN  [ exists |-> TRUE,
          data   |-> [ k \in DOMAIN data \cup { notification_type } |->
                         IF k = notification_type THEN today ELSE data[k] ] ]

\* a call of mark_notification_sent by itself
mark_notification_sent(notification_type) ==
    /\ last_notification' = MarkSent(last_notification, notification_type, TodayText(now))
    /\ Call("mark_notification_sent",
            [ notification_type |-> notification_type, day |-> now ], NoError, None)
    /\ UNCHANGED << store, now, reminders, alerts, warned, pc, scheduler >>

\* send_daily_reminder marking the key whatever _send_email returned
send_daily_reminder_marks_always(success) ==
    IF ~should_send_daily_reminder
    THEN /\ Call("send_daily_reminder", [ day |-> now ], NoError, FALSE)
         /\ UNCHANGED << store, last_notification, now, reminders, alerts, warned, pc, scheduler >>
    ELSE /\ success => reminders[now] < MaxDispatch
         /\ reminders' = IF success THEN [ reminders EXCEPT ![now] = @ + 1 ]
                         ELSE reminders
         /\ last_notification' =
                MarkSent(last_notification, "last_daily_reminder", TodayText(now))
         /\ Call("send_daily_reminder", [ day |-> now ], NoError, success)
         /\ UNCHANGED << store, now, alerts, warned, pc, scheduler >>

\* success is the outcome of _send_email: True unless SMTP raised
send_daily_reminder(success) ==
    IF ~should_send_daily_reminder
    THEN /\ Call("send_daily_reminder", [ day |-> now ], NoError, FALSE)
         /\ UNCHANGED << store, last_notification, now, reminders, alerts, warned, pc, scheduler >>
    ELSE /\ success => reminders[now] < MaxDispatch
         /\ reminders' = IF success THEN [ reminders EXCEPT ![now] = @ + 1 ]
                         ELSE reminders
         /\ last_notification' =
                IF success
                THEN MarkSent(last_notification, "last_daily_reminder", TodayText(now))
                ELSE last_notification
         /\ Call("send_daily_reminder", [ day |-> now ], NoError, success)
         /\ UNCHANGED << store, now, alerts, warned, pc, scheduler >>

\* success is the outcome of _send_email when the alert is sent
send_budget_alert(category, spent, limit, success) ==
    LET args   == [ category |-> category, spent |-> spent, limit |-> limit ]
        status == AlertStatus(spent, limit)
    IN  IF status = None
        THEN /\ Call("send_budget_alert", args, NoError,
                     [ status |-> None, sent |-> FALSE ])
             /\ UNCHANGED << store, last_notification, now, reminders, alerts, warned, pc, scheduler >>
        ELSE /\ success => alerts[<< category, now >>] < MaxDispatch
             /\ alerts' = IF success
                          THEN [ alerts EXCEPT ![<< category, now >>] = @ + 1 ]
                          ELSE alerts
             /\ warned' = IF success /\ status = "WARNING"
                          THEN [ warned EXCEPT ![<< category, now >>] = TRUE ]
                          ELSE warned
             /\ Call("send_budget_alert", args, NoError,
                     [ status |-> status, sent |-> success ])
             /\ UNCHANGED << store, last_notification, now, reminders, pc, scheduler >>

\* the dashboard classifying one budget status row
classify_budget_status(category, spent, limit) ==
    /\ Call("calculate_budget_alerts",
            [ category |-> category, spent |-> spent, limit |-> limit ], NoError,
            calculate_budget_alerts(
                << [ category |-> category, limit_amount |-> limit, spent |-> spent ] >>))
    /\ UNCHANGED << store, last_notification, now, reminders, alerts, warned, pc, scheduler >>

\* DashboardWidget.update_alerts: the status of the month and its alerts
update_alerts(year, month) ==
    /\ Call("update_alerts", [ year |-> year, month |-> month ], NoError,
            [ budget_status |-> BudgetStatus(year, month),
              alerts |-> calculate_budget_alerts(BudgetStatus(year, month)) ])
    /\ UNCHANGED << store, last_notification, now, reminders, alerts, warned, pc, scheduler >>

\* the row of a category in a budget status
RowOf(budget_status, category) ==
    budget_status[CHOOSE i \in DOMAIN budget_status :
                      budget_status[i].category = category]

\* the loop with one key for all budgets: nothing is dispatched once any
\* budget alert was accepted today
AlertingUnlessSentToday(budget_status) ==
    IF \E k \in DOMAIN alerts : k[2] = now /\ alerts[k] > 0 THEN {}
    ELSE { budget_status[i].category : i \in
             { j \in DOMAIN budget_status :
                 /\ PercentageAtLeast(budget_status[j].spent, budget_status[j].limit_amount, 80)
                 /\ AlertStatus(budget_status[j].spent, budget_status[j].limit_amount) # None } }

\* the categories check_and_send_budget_alerts calls send_budget_alert for,
\* and for which send_budget_alert reaches _send_email
Alerting(budget_status) ==
    { budget_status[i].category : i \in
        { j \in DOMAIN budget_status :
            /\ PercentageAtLeast(budget_status[j].spent, budget_status[j].limit_amount, 80)
            /\ AlertStatus(budget_status[j].spent, budget_status[j].limit_amount) # None } }

\* the alerts of a pass in which the categories sent were accepted
AfterPass(sent) ==
    [ k \in DOMAIN alerts |->
        IF k[2] = now /\ k[1] \in sent THEN alerts[k] + 1 ELSE alerts[k] ]

WarnedAfterPass(budget_status, sent) ==
    [ k \in DOMAIN warned |->
        \/ warned[k]
        \/ /\ k[2] = now
           /\ k[1] \in sent
           /\ AlertStatus(RowOf(budget_status, k[1]).spent,
                          RowOf(budget_status, k[1]).limit_amount) = "WARNING" ]

\* the loop leaving at the first dispatch that fails: the categories before
\* position n are accepted, the one at position n, if any, is refused
check_and_send_budget_alerts_abort_on_failure ==
    LET budget_status == BudgetStatus(Clock[now].year, Clock[now].month)
        order == SelectSeq(budget_status,
                           LAMBDA b : b.category \in Alerting(budget_status))
    IN  \E n \in 1..(Len(order) + 1) :
        LET sent      == { order[i].category : i \in 1..(n - 1) }
            attempted == { order[i].category : i \in 1..n \cap DOMAIN order }
        IN  /\ \A c \in sent : alerts[<< c, now >>] < MaxDispatch
            /\ alerts' = AfterPass(sent)
            /\ warned' = WarnedAfterPass(budget_status, sent)
            /\ Call("check_and_send_budget_alerts",
                    [ day |-> now, alerting |-> attempted ],
                    NoError, Cardinality(sent))
            /\ UNCHANGED << store, last_notification, now, reminders, pc, scheduler >>

\* sent: the categories whose message SMTP accepts in this pass; alerting:
\* the categories whose message was handed to _send_email
check_and_send_budget_alerts ==
    LET budget_status == BudgetStatus(Clock[now].year, Clock[now].month)
    IN  \E sent \in SUBSET Alerting(budget_status) :
        /\ \A c \in sent : alerts[<< c, now >>] < MaxDispatch
        /\ alerts' = AfterPass(sent)
        /\ warned' = WarnedAfterPass(budget_status, sent)
        /\ Call("check_and_send_budget_alerts",
                [ day |-> now, alerting |-> Alerting(budget_status) ],
                NoError, Cardinality(sent))
        /\ UNCHANGED << store, last_notification, now, reminders, pc, scheduler >>

\* the wall clock passes midnight
Tick ==
    /\ now < NumDays
    /\ now' = now + 1
    /\ Call("tick", [ day |-> now + 1 ], NoError, None)
    /\ UNCHANGED << store, last_notification, reminders, alerts, warned, pc, scheduler >>

(***************************************************************************)
(* send_daily_reminder step by step, for executions that run at the same   *)
(* time: the read of last_notification.json, the dispatch and the          *)
(* read-modify-write of mark_notification_sent are separate file and       *)
(* network operations, and nothing in the code locks between them.         *)
(***************************************************************************)
\* "if not self.should_send_daily_reminder(): return False"
reminder_check(p) ==
    /\ pc[p] = "idle"
    /\ pc' = [ pc EXCEPT ![p] = IF should_send_daily_reminder THEN "checked" ELSE "idle" ]
    /\ Call("should_send_daily_reminder", [ run |-> p, day |-> now ], NoError,
            should_send_daily_reminder)
    /\ UNCHANGED << store, last_notification, now, reminders, alerts, warned, scheduler >>

\* the two reads of the database, the body and "success = self._send_email(...)";
\* on failure send_daily_reminder returns False without marking
reminder_dispatch(p, success) ==
    /\ pc[p] = "checked"
    /\ success => reminders[now] < MaxDispatch
    /\ reminders' = IF success THEN [ reminders EXCEPT ![now] = @ + 1 ] ELSE reminders
    /\ pc' = [ pc EXCEPT ![p] = IF success THEN "sent" ELSE "idle" ]
    /\ Call("_send_email", [ run |-> p, day |-> now ], NoError, success)
    /\ UNCHANGED << store, last_notification, now, alerts, warned, scheduler >>

\* "if success: self.mark_notification_sent('last_daily_reminder')", then
\* "return success"
reminder_mark(p) ==
    /\ pc[p] = "sent"
    /\ last_notification' =
           MarkSent(last_notification, "last_daily_reminder", TodayText(now))
    /\ pc' = [ pc EXCEPT ![p] = "idle" ]
    /\ Call("send_daily_reminder", [ run |-> p, day |-> now ], NoError, TRUE)
    /\ UNCHANGED << store, now, reminders, alerts, warned, scheduler >>

(***************************************************************************)
(* Scheduler (src/run_scheduler.py).  scheduler.state is the process:      *)
(* "starting" until the first job() of main, "running" in the loop,        *)
(* "stopped" once an exception left main.  scheduler.hour counts the       *)
(* scheduled times of the day that have passed, scheduler.pending holds    *)
(* the scheduled jobs that are due, scheduler.caught counts the failures   *)
(* job() caught, up to MaxCaught.                                          *)
(***************************************************************************)
\* schedule.every().day.at(...).do(job), in the order of the day
ScheduledTimes == << "09:00", "18:00", "20:00" >>

\* the exception DatabaseManager() ends with: init_db executes its four
\* CREATE TABLE statements, and the third one ("INTEGER PRIMIRY KEY
\* AUTOINCREMENT") is a syntax error for SQLite, whatever the file holds
init_db == "OperationalError"

\* the exception send_scheduled_notifications ends with: "db =
\* DatabaseManager()" is its first statement and is not inside a try
send_scheduled_notifications == init_db

\* job() without its try and except: the exception leaves job()
job_without_except ==
    [ raised |-> send_scheduled_notifications, caught |-> FALSE ]

\* job(): "try: send_scheduled_notifications() except Exception as e: print"
job ==
    [ raised |-> NoError, caught |-> send_scheduled_notifications # NoError ]

\* the scheduler after one call of job(); an exception that leaves job()
\* leaves main, whose only except clause is for KeyboardInterrupt
AfterJob(outcome, pending) ==
    IF outcome.raised # NoError
    THEN [ scheduler EXCEPT !.state = "stopped" ]
    ELSE [ state   |-> "running",
           hour    |-> scheduler.hour,
           pending |-> pending,
           caught  |-> IF outcome.caught /\ scheduler.caught < MaxCaught
                       THEN scheduler.caught + 1 ELSE scheduler.caught ]

\* main up to the loop: the three jobs are scheduled and job() is called once
main ==
    /\ scheduler.state = "starting"
    /\ scheduler' = AfterJob(job, scheduler.pending)
    /\ Call("job", [ day |-> now, at |-> "startup" ], job.raised, job.caught)
    /\ UNCHANGED << store, last_notification, now, reminders, alerts, warned, pc >>

\* the next scheduled time of the day arrives while the loop sleeps
time_passes ==
    /\ scheduler.state = "running"
    /\ scheduler.hour < Len(ScheduledTimes)
    /\ scheduler' = [ scheduler EXCEPT
                        !.hour = @ + 1,
                        !.pending = @ \cup { ScheduledTimes[scheduler.hour + 1] } ]
    /\ Call("sleep", [ day |-> now, at |-> ScheduledTimes[scheduler.hour + 1] ],
            NoError, None)
    /\ UNCHANGED << store, last_notification, now, reminders, alerts, warned, pc >>

\* the day ends while the loop sleeps
midnight ==
    /\ scheduler.state = "running"
    /\ scheduler.hour = Len(ScheduledTimes)
    /\ now < NumDays
    /\ now' = now + 1
    /\ scheduler' = [ scheduler EXCEPT !.hour = 0 ]
    /\ Call("sleep", [ day |-> now + 1, at |-> "00:00" ], NoError, None)
    /\ UNCHANGED << store, last_notification, reminders, alerts, warned, pc >>

\* schedule.run_pending() in the loop of main: a job that is due runs
run_pending ==
    /\ scheduler.state = "running"
    /\ \E at \in scheduler.pending :
          /\ scheduler' = AfterJob(job, scheduler.pending \ { at })
          /\ Call("job", [ day |-> now, at |-> at ], job.raised, job.caught)
    /\ UNCHANGED << store, last_notification, now, reminders, alerts, warned, pc >>

(***************************************************************************)
(* Savings goal getters (src/core/models.py).  A percentage is kept as the *)
(* exact fraction num/den, den > 0.                                        *)
(***************************************************************************)
Abs(x) == IF x < 0 THEN -x ELSE x

Sign(x) == IF x < 0 THEN -1 ELSE 1

\* min((current_amount / target_amount) * 100, 100), 0 when the target is 0
progress_percentage(goal) ==
    IF goal.target_amount = 0 THEN [ num |-> 0, den |-> 1 ]
    ELSE LET num == goal.current_amount * 100 * Sign(goal.target_amount)
             den == Abs(goal.target_amount)
         IN  IF num > 100 * den THEN [ num |-> 100, den |-> 1 ]
             ELSE [ num |-> num, den |-> den ]

\* max(target_amount - current_amount, 0)
remaining_amount(goal) ==
    IF goal.target_amount - goal.current_amount > 0
    THEN goal.target_amount - goal.current_amount ELSE 0

is_completed(goal) == goal.current_amount >= goal.target_amount

(***************************************************************************)
(* Budget getters (src/core/models.py).                                    *)
(***************************************************************************)
\* the ratio without the upper clamp: (spent / limit_amount) * 100
percentage_used_unclamped(budget) ==
    IF budget.limit_amount = 0 THEN [ num |-> 0, den |-> 1 ]
    ELSE [ num |-> budget.spent * 100 * Sign(budget.limit_amount),
           den |-> Abs(budget.limit_amount) ]

\* min((spent / limit_amount) * 100, 100), 0 when the limit is 0
percentage_used(budget) ==
    IF budget.limit_amount = 0 THEN [ num |-> 0, den |-> 1 ]
    ELSE LET num == budget.spent * 100 * Sign(budget.limit_amount)
             den == Abs(budget.limit_amount)
         IN  IF num > 100 * den THEN [ num |-> 100, den |-> 1 ]
             ELSE [ num |-> num, den |-> den ]

\* the warning zone without its upper end: 80 <= percentage_used
is_warning_without_upper_end(budget) ==
    LET p == percentage_used(budget)
    IN  80 * p.den <= p.num

\* 80 <= percentage_used < 100
is_warning(budget) ==
    LET p == percentage_used(budget)
    IN  80 * p.den <= p.num /\ p.num < 100 * p.den

\* percentage_used >= 100
is_exceeded(budget) ==
    LET p == percentage_used(budget)
    IN  p.num >= 100 * p.den

\* a Budget built from one status row: its getters, and the alerts
\* calculate_budget_alerts gives for the row
budget_getters(category, spent, limit) ==
    LET budget == [ category |-> category, limit_amount |-> limit, spent |-> spent ]
    IN  /\ Call("Budget", [ category |-> category, spent |-> spent, limit |-> limit ],
                NoError,
                [ percentage_used |-> percentage_used(budget),
                  is_warning |-> is_warning(budget),
                  is_exceeded |-> is_exceeded(budget),
                  alerts |-> calculate_budget_alerts(<< budget >>) ])
        /\ UNCHANGED << store, last_notification, now, reminders, alerts, warned, pc, scheduler >>

(***************************************************************************)
(* Amount validation and the save actions of the dialogs                   *)
(* (src/core/utils.py, src/ui/dialogs).  A text is a sequence of           *)
(* characters.                                                             *)
(***************************************************************************)
Space == " "

\* str.strip(): the text without leading and trailing blanks
Strip(text) ==
    LET inked == { i \in DOMAIN text : text[i] # Space }
    IN  IF inked = {} THEN << >>
        ELSE SubSeq(text, CHOOSE i \in inked : \A j \in inked : i <= j, Max(inked))

DigitValue(c) ==
    CASE c = "0" -> 0 [] c = "1" -> 1 [] c = "2" -> 2 [] c = "3" -> 3
      [] c = "4" -> 4 [] c = "5" -> 5 [] c = "6" -> 6 [] c = "7" -> 7
      [] c = "8" -> 8 [] c = "9" -> 9

IsDigit(c) == c \in { "0", "1", "2", "3", "4", "5", "6", "7", "8", "9" }

\* value of a sequence of decimal digits
RECURSIVE DigitsValue(_)
DigitsValue(digits) ==
    IF digits = << >> THEN 0
    ELSE DigitsValue(SubSeq(digits, 1, Len(digits) - 1)) * 10
             + DigitValue(digits[Len(digits)])

\* float(text) on blanks, signs and decimal digits: blanks around the
\* number are skipped, one sign may lead, at least one digit must follow
\* and nothing else; any other text raises ValueError
float(text) ==
    LET stripped == Strip(text)
        signed   == stripped # << >> /\ stripped[1] \in { "-", "+" }
        digits   == IF signed THEN Tail(stripped) ELSE stripped
    IN  IF digits = << >> \/ \E i \in DOMAIN digits : ~IsDigit(digits[i])
        THEN [ raised |-> "ValueError", value |-> 0 ]
        ELSE [ raised |-> NoError,
               value  |-> IF signed /\ stripped[1] = "-"
                          THEN 0 - DigitsValue(digits) ELSE DigitsValue(digits) ]

\* the validation accepting zero: amount >= 0
validate_amount_accepting_zero(amount_str) ==
    LET amount == float(amount_str)
    IN  IF amount.raised # NoError THEN [ valid |-> FALSE, amount |-> 0 ]
        ELSE [ valid |-> amount.value >= 0, amount |-> amount.value ]

\* try: amount = float(amount_str); return amount > 0, amount
\* except: return False, 0
validate_amount(amount_str) ==
    LET amount == float(amount_str)
    IN  IF amount.raised # NoError THEN [ valid |-> FALSE, amount |-> 0 ]
        ELSE [ valid |-> amount.value > 0, amount |-> amount.value ]

\* TransactionDialog.save_transaction for a new transaction; the dialog
\* catches the exception of add_transaction and shows it
save_transaction(amount_text, date, type_, category, description) ==
    LET args == [ amount_text |-> amount_text ]
        cols == { "date", "type", "category", "amount", "description" }
        id   == NextRowId(transactions, transactions_seq)
    IN  IF Strip(amount_text) = << >>
        THEN /\ Call("save_transaction", args, NoError, "Please enter an amount")
             /\ UNCHANGED << store, last_notification, now, reminders, alerts, warned, pc, scheduler >>
        ELSE IF ~validate_amount(amount_text).valid
        THEN /\ Call("save_transaction", args, NoError, "Please enter a valid amount")
             /\ UNCHANGED << store, last_notification, now, reminders, alerts, warned, pc, scheduler >>
        ELSE IF cols \subseteq TransactionColumns
        THEN /\ id <= MaxTransactionId
             /\ transactions' = transactions \cup
                    { [ id |-> id, date |-> date, type |-> type_, category |-> category,
                        amount |-> validate_amount(amount_text).amount ] }
             /\ transactions_seq' = id
             /\ Call("save_transaction", args, NoError, "accepted")
             /\ UNCHANGED << schema, budgets, budgets_seq, savings_goals,
                             savings_goals_seq, last_notification, now,
                             reminders, alerts, warned, pc, scheduler >>
        ELSE /\ Call("save_transaction", args, NoError, "Failed to save transaction")
             /\ UNCHANGED << store, last_notification, now, reminders, alerts, warned, pc, scheduler >>

\* BudgetDialog.save_budget: self.db.add_budget(category, amount) once the
\* limit text is valid
save_budget(limit_text, category) ==
    LET args == [ amount_text |-> limit_text, category |-> category ]
        id   == NextRowId(budgets, budgets_seq)
    IN  IF Strip(limit_text) = << >>
        THEN /\ Call("save_budget", args, NoError, "Please enter a limit amount")
             /\ UNCHANGED << store, last_notification, now, reminders, alerts, warned, pc, scheduler >>
        ELSE IF ~validate_amount(limit_text).valid
        THEN /\ Call("save_budget", args, NoError, "Please enter a valid amount")
             /\ UNCHANGED << store, last_notification, now, reminders, alerts, warned, pc, scheduler >>
        ELSE /\ id <= MaxBudgetId
             /\ budgets' = { b \in budgets : b.category # category } \cup
                    { [ id |-> id, category |-> category,
                        limit_amount |-> validate_amount(limit_text).amount ] }
             /\ budgets_seq' = id
             /\ Call("save_budget", args, NoError, "accepted")
             /\ UNCHANGED << schema, transactions, transactions_seq, savings_goals,
                             savings_goals_seq, last_notification, now,
                             reminders, alerts, warned, pc, scheduler >>

(***************************************************************************)
(* Initial states and next-state relations.                                *)
(***************************************************************************)
EmptyStore ==
    /\ schema \in { "init_db", "sample" }
    /\ transactions = {}
    /\ transactions_seq = 0
    /\ budgets = {}
    /\ budgets_seq = 0
    /\ savings_goals = {}
    /\ savings_goals_seq = 0

NothingSent ==
    /\ last_notification = [ exists |-> FALSE, data |-> << >> ]
    /\ reminders = [ d \in Days |-> 0 ]
    /\ alerts = [ k \in Categories \X Days |-> 0 ]
    /\ warned = [ k \in Categories \X Days |-> FALSE ]
    /\ pc = [ p \in Runs |-> "idle" ]
    /\ scheduler = [ state |-> "starting", hour |-> 0, pending |-> {}, caught |-> 0 ]

Init ==
    /\ EmptyStore
    /\ NothingSent
    /\ now = NumDays
    /\ ret = [ op |-> "init", args |-> None, raised |-> NoError, val |-> None,
             again |-> FALSE ]

\* date = (datetime.now() - timedelta(days=i)).strftime("%Y-%m-%d")
SampleDates == { TodayText(i) : i \in 1..now }

SummaryArgs == Years \X { 1, 11, 12 }

\* the ledger: transactions and the monthly summary
Next ==
    \/ \E d \in SampleDates, t \in Types :
          \E a \in ( IF t = "Expense" THEN Amounts ELSE { 50 } ) :
             sample_insert_transaction(d, t, "Food", a)
    \/ \E d \in { TodayText(now) }, t \in { "Expense" }, a \in { 40 } :
          add_transaction(d, t, "Food", a, "lunch")
    \/ \E id \in 1..MaxTransactionId, d \in { TodayText(now) }, t \in { "Income" }, a \in { 50 } :
          update_transaction(id, d, t, "Food", a, "edited")
    \/ \E id \in 1..MaxTransactionId : delete_transaction(id)
    \/ \E ym \in SummaryArgs : get_monthly_summary(ym[1], ym[2])

Spec == Init /\ [][Next]_vars

\* the budget tracker: budgets and the budget status
NextBudget ==
    \/ \E d \in { TodayText(3), TodayText(4) }, t \in Types, c \in { "Food", "Other" } :
          sample_insert_transaction(d, t, c, 40)
    \/ \E c \in { "Bills", "Food" }, l \in Limits : add_budget(c, l)
    \/ \E id \in 1..MaxBudgetId : delete_budget(id)
    \/ \E ym \in { << 2024, 12 >>, << 2025, 1 >> } : get_budget_status(ym[1], ym[2])

SpecBudget == Init /\ [][NextBudget]_vars

GoalNames == { "Laptop", "Vacation" }

GoalTargets == { 0, 50, 100 }

GoalAmounts == { -50, 0, 50, 150 }

\* the savings tracker
NextSavings ==
    \/ \E n \in GoalNames, t \in GoalTargets : add_savings_goal(n, t, TodayText(NumDays))
    \/ \E id \in 1..MaxGoalId, a \in GoalAmounts : update_savings_goal_amount(id, a)
    \/ \E id \in 1..MaxGoalId : delete_savings_goal(id)

SpecSavings == Init /\ [][NextSavings]_vars

\* the notification pass of send_scheduled_notifications, run any number
\* of times on one day
NextNotify ==
    \/ \E c \in { "Bills", "Food" } :
          sample_insert_transaction(TodayText(now), "Expense", c, 40)
    \/ \E c \in { "Bills", "Food" }, l \in { 0, 50 } : add_budget(c, l)
    \/ \E success \in BOOLEAN : send_daily_reminder(success)
    \/ check_and_send_budget_alerts

SpecNotify == Init /\ [][NextNotify]_vars

InitReminder ==
    /\ EmptyStore
    /\ NothingSent
    /\ now = 1
    /\ ret = [ op |-> "init", args |-> None, raised |-> NoError, val |-> None,
             again |-> FALSE ]

\* the daily reminder over several days
NextReminder ==
    \/ \E success \in BOOLEAN : send_daily_reminder(success)
    \/ Tick

SpecReminder == InitReminder /\ [][NextReminder]_vars

\* reads between the mutations of the three trackers
NextReadWrite ==
    \/ sample_insert_transaction(TodayText(now), "Expense", "Food", 40)
    \/ add_transaction(TodayText(now), "Expense", "Food", 40, "lunch")
    \/ \E id \in 1..MaxTransactionId :
          update_transaction(id, TodayText(now), "Income", "Food", 50, "edited")
    \/ \E id \in 1..MaxTransactionId : delete_transaction(id)
    \/ \E c \in { "Bills", "Food" } : add_budget(c, 50)
    \/ \E id \in 1..MaxBudgetId : delete_budget(id)
    \/ add_savings_goal("Laptop", 100, TodayText(NumDays))
    \/ \E id \in 1..MaxGoalId, a \in { 0, 50 } : update_savings_goal_amount(id, a)
    \/ get_monthly_summary(Clock[now].year, Clock[now].month)
    \/ get_budget_status(Clock[now].year, Clock[now].month)
    \/ get_all_transactions(<< >>, << >>, None, None)
    \/ get_all_savings_goals

SpecReadWrite == Init /\ [][NextReadWrite]_vars

ListDates == { TodayText(3), TodayText(4) }

\* type and category of rows of expense_data and income_data
ListKinds == { << "Expense", "Food" >>, << "Expense", "Other" >>, << "Income", "Other" >> }

\* the transaction list under every combination of filters
NextList ==
    \/ \E d \in ListDates, tc \in ListKinds :
          sample_insert_transaction(d, tc[1], tc[2], 40)
    \/ \E start_date \in ListDates \cup { << >> }, end_date \in ListDates \cup { << >> },
          category \in { None, "Food" }, type_ \in { None, "Expense" } :
          get_all_transactions(start_date, end_date, category, type_)

SpecList == Init /\ [][NextList]_vars

\* number of days of a calendar month
DaysInMonth(year, month) ==
    IF month \in { 4, 6, 9, 11 } THEN 30
    ELSE IF month # 2 THEN 31
    ELSE IF year % 4 = 0 /\ (year % 100 # 0 \/ year % 400 = 0) THEN 29
    ELSE 28

LastDayOfMonth(year, month) == IsoDate(year, month, DaysInMonth(year, month))

FirstDayOfNextMonth(year, month) ==
    IF month = 12 THEN IsoDate(year + 1, 1, 1) ELSE IsoDate(year, month + 1, 1)

\* a sample database with a Food budget and two Food expenses: one on the
\* last day of a month, one on the first day of the month after it
InitWindow ==
    /\ schema = "sample"
    /\ \E y \in Years, m \in 1..12 :
          transactions =
              { [ id |-> 1, date |-> LastDayOfMonth(y, m), type |-> "Expense",
                  category |-> "Food", amount |-> 40 ],
                [ id |-> 2, date |-> FirstDayOfNextMonth(y, m), type |-> "Expense",
                  category |-> "Food", amount |-> 50 ] }
    /\ transactions_seq = 2
    /\ budgets = { [ id |-> 1, category |-> "Food", limit_amount |-> 100 ] }
    /\ budgets_seq = 1
    /\ savings_goals = {}
    /\ savings_goals_seq = 0
    /\ NothingSent
    /\ now = NumDays
    /\ ret = [ op |-> "init", args |-> None, raised |-> NoError, val |-> None,
             again |-> FALSE ]

\* the two reads that take a month, for every month of three years
NextWindow ==
    \/ \E y \in Years \cup { 2026 }, m \in 1..12 : get_monthly_summary(y, m)
    \/ \E y \in Years \cup { 2026 }, m \in 1..12 : get_budget_status(y, m)

SpecWindow == InitWindow /\ [][NextWindow]_vars

\* rows of the scenario: two Food expenses in December, and rows that
\* differ from them in the month, the type or the category
ScenarioRows ==
    { << TodayText(2), "Expense", "Food", 500 >>,
      << TodayText(3), "Expense", "Food", 400 >>,
      << TodayText(4), "Expense", "Food", 400 >>,
      << TodayText(2), "Income", "Food", 500 >>,
      << TodayText(3), "Expense", "Other", 400 >> }

\* the dashboard over a budget of 1000 for Food
NextScenario ==
    \/ \E r \in ScenarioRows : sample_insert_transaction(r[1], r[2], r[3], r[4])
    \/ \E l \in { 500, 1000 } : add_budget("Food", l)
    \/ \E ym \in { << 2024, 12 >>, << 2025, 1 >> } : get_budget_status(ym[1], ym[2])
    \/ \E ym \in { << 2024, 12 >>, << 2025, 1 >> } : update_alerts(ym[1], ym[2])

SpecScenario == Init /\ [][NextScenario]_vars

\* a sign, the digit of zero, another digit and a letter
AmountChars == { "-", "0", "5", "a" }

\* the texts a user can leave in the amount field
AmountTexts == UNION { [ 1..n -> AmountChars ] : n \in 0..MaxAmountLen }

\* the save buttons of the transaction dialog and the budget dialog
NextDialog ==
    \/ \E text \in AmountTexts :
          save_transaction(text, TodayText(now), "Expense", "Food", "lunch")
    \/ \E text \in AmountTexts : save_budget(text, "Food")

\* the dialogs of the main window work on config.DB_PATH, the sample database
InitDialog == Init /\ schema = "sample"

SpecDialog == InitDialog /\ [][NextDialog]_vars

\* executions of send_daily_reminder started by separate processes
\* (run_scheduler.py and "python core/notifications.py") on one day
InitInterleaved ==
    /\ EmptyStore
    /\ NothingSent
    /\ now \in Days
    /\ ret = [ op |-> "init", args |-> None, raised |-> NoError, val |-> None,
             again |-> FALSE ]

NextInterleaved ==
    \/ \E p \in Runs : reminder_check(p)
    \/ \E p \in Runs, success \in BOOLEAN : reminder_dispatch(p, success)
    \/ \E p \in Runs : reminder_mark(p)

SpecInterleaved == InitInterleaved /\ [][NextInterleaved]_vars

\* the three trackers on a file that other processes lock at times
NextFailure ==
    \/ sample_insert_transaction(TodayText(now), "Expense", "Food", 40)
    \/ add_transaction(TodayText(now), "Expense", "Food", 40, "lunch")
    \/ \E id \in 1..MaxTransactionId : delete_transaction(id)
    \/ \E c \in { "Bills", "Food" } : add_budget(c, 50)
    \/ \E id \in 1..MaxBudgetId : delete_budget(id)
    \/ add_savings_goal("Laptop", 100, TodayText(NumDays))
    \/ \E id \in 1..MaxGoalId : update_savings_goal_amount(id, 50)
    \/ \E id \in 1..MaxGoalId : delete_savings_goal(id)
    \/ storage_failure("add_transaction",
                       [ date |-> TodayText(now), type |-> "Expense", category |-> "Food",
                         amount |-> 40, description |-> "lunch" ])
    \/ \E id \in 1..MaxTransactionId : storage_failure("delete_transaction", [ id |-> id ])
    \/ \E c \in { "Bills", "Food" } :
          storage_failure("add_budget", [ category |-> c, limit_amount |-> 50 ])
    \/ \E id \in 1..MaxBudgetId : storage_failure("delete_budget", [ id |-> id ])
    \/ storage_failure("add_savings_goal",
                       [ name |-> "Laptop", target_amount |-> 100,
                         deadline |-> TodayText(NumDays) ])
    \/ \E id \in 1..MaxGoalId :
          storage_failure("update_savings_goal_amount", [ id |-> id, current_amount |-> 50 ])
    \/ \E id \in 1..MaxGoalId : storage_failure("delete_savings_goal", [ id |-> id ])

SpecFailure == Init /\ [][NextFailure]_vars

(***************************************************************************)
(* Days until the deadline of a goal (src/core/models.py,                  *)
(* src/core/utils.py).  A deadline is the value of column deadline: NULL   *)
(* or a text.                                                              *)
(***************************************************************************)
\* the fields of a text between the occurrences of sep
RECURSIVE SplitAt(_, _)
SplitAt(text, sep) ==
    IF \A i \in DOMAIN text : text[i] # sep THEN << text >>
    ELSE LET i == CHOOSE k \in DOMAIN text :
                      text[k] = sep /\ \A j \in 1..(k - 1) : text[j] # sep
         IN  << SubSeq(text, 1, i - 1) >> \o SplitAt(SubSeq(text, i + 1, Len(text)), sep)

IsDigitCode(c) == c \in 48..57

\* the number a text of decimal digits writes
RECURSIVE NumberOf(_)
NumberOf(field) ==
    IF field = << >> THEN 0
    ELSE NumberOf(SubSeq(field, 1, Len(field) - 1)) * 10 + (field[Len(field)] - 48)

\* %Y: four digits
MatchesYear(field) == Len(field) = 4 /\ \A i \in 1..4 : IsDigitCode(field[i])

\* %m: 1[0-2] | 0[1-9] | [1-9]
MatchesMonth(field) ==
    /\ Len(field) \in { 1, 2 }
    /\ \A i \in DOMAIN field : IsDigitCode(field[i])
    /\ NumberOf(field) \in 1..12

\* %d: 3[01] | [12]\d | 0[1-9] | [1-9] | " "[1-9]
MatchesDay(field) ==
    \/ /\ Len(field) \in { 1, 2 }
       /\ \A i \in DOMAIN field : IsDigitCode(field[i])
       /\ NumberOf(field) \in 1..31
    \/ Len(field) = 2 /\ field[1] = 32 /\ field[2] \in 49..57

\* datetime.strptime(deadline, "%Y-%m-%d").date(): TypeError for None,
\* ValueError for a text the format does not match or a date no calendar has
strptime(deadline) ==
    IF deadline.null THEN [ raised |-> "TypeError" ]
    ELSE LET f == SplitAt(deadline.text, Dash)
         IN  IF Len(f) = 3 /\ MatchesYear(f[1]) /\ MatchesMonth(f[2]) /\ MatchesDay(f[3])
             THEN LET y == NumberOf(f[1])
                      m == NumberOf(f[2])
                      d == NumberOf(SelectSeq(f[3], IsDigitCode))
                  IN  IF y >= 1 /\ d <= DaysInMonth(y, m)
                      THEN [ raised |-> NoError, year |-> y, month |-> m, day |-> d ]
                      ELSE [ raised |-> "ValueError" ]
             ELSE [ raised |-> "ValueError" ]

\* days of the months of a year before a month
RECURSIVE DaysBeforeMonth(_, _)
DaysBeforeMonth(year, month) ==
    IF month = 1 THEN 0
    ELSE DaysBeforeMonth(year, month - 1) + DaysInMonth(year, month - 1)

\* date.toordinal(): days from 0001-01-01, which is day 1
Ordinal(year, month, day) ==
    LET y == year - 1
    IN  y * 365 + (y \div 4) - (y \div 100) + (y \div 400)
          + DaysBeforeMonth(year, month) + day

\* the difference returned as it is, negative after the deadline
DaysUntilUnclamped(deadline) ==
    LET date == strptime(deadline)
    IN  IF date.raised # NoError THEN 0
        ELSE Ordinal(date.year, date.month, date.day)
               - Ordinal(Clock[now].year, Clock[now].month, Clock[now].day)

\* try: max((deadline - today).days, 0)   except: 0
DaysUntil(deadline) ==
    LET date == strptime(deadline)
    IN  IF date.raised # NoError THEN 0
        ELSE LET days == Ordinal(date.year, date.month, date.day)
                           - Ordinal(Clock[now].year, Clock[now].month, Clock[now].day)
             IN  IF days > 0 THEN days ELSE 0

\* SavingsGoal.days_remaining
days_remaining(goal) == DaysUntil(goal.deadline)

\* utils.calculate_days_until_deadline
calculate_days_until_deadline(deadline_str) == DaysUntil(deadline_str)

\* the savings widget showing the days left of a goal, and the getter of
\* the goal built from the same row
days_left(deadline) ==
    /\ Call("days_left", [ deadline |-> deadline, day |-> now ], NoError,
            [ days_remaining |-> days_remaining([ deadline |-> deadline ]),
              calculate_days_until_deadline |-> calculate_days_until_deadline(deadline) ])
    /\ UNCHANGED << store, last_notification, now, reminders, alerts, warned,
                    pc, scheduler >>

Text(t) == [ null |-> FALSE, text |-> t ]

\* deadlines: NULL, dates of the clock and around it, in ISO form and
\* without the leading zero, texts that are no date
Deadlines ==
    { [ null |-> TRUE, text |-> << >> ] }
      \cup { Text(TodayText(i)) : i \in Days }
      \cup { Text(IsoDate(2024, 2, 29)), Text(IsoDate(2025, 2, 29)),
             Text(IsoDate(2025, 13, 1)), Text(IsoDate(2025, 1, 0)),
             Text(IsoDate(0, 1, 1)), Text(IsoDate(2026, 1, 31)),
             Text(Fmt04d(2025) \o << Dash, Digit(1), Dash >> \o Fmt02d(31)),
             Text(Fmt02d(31) \o << 47 >> \o Fmt02d(1) \o << 47 >> \o Fmt04d(2025)),
             Text(IsoDate(2025, 1, 31) \o << 32 >>),
             Text(<< >>) }

InitDeadline ==
    /\ EmptyStore
    /\ NothingSent
    /\ now \in Days
    /\ ret = [ op |-> "init", args |-> None, raised |-> NoError, val |-> None,
             again |-> FALSE ]

NextDeadline == \E deadline \in Deadlines : days_left(deadline)

SpecDeadline == InitDeadline /\ [][NextDeadline]_vars

\* keys of last_notification.json: the one send_daily_reminder marks and
\* the ones of the alert_key of check_and_send_budget_alerts
NotificationTypes == { "last_daily_reminder", "budget_alert_Food", "budget_alert_Bills" }

\* marks of several keys over several days
NextMark ==
    \/ \E k \in NotificationTypes : mark_notification_sent(k)
    \/ Tick

SpecMark == InitReminder /\ [][NextMark]_vars

\* the scheduler process over the days of the clock
NextScheduler ==
    \/ main
    \/ time_passes
    \/ midnight
    \/ run_pending

\* "while True: schedule.run_pending(); time.sleep(60)": the loop calls
\* run_pending again and again for as long as the process runs
SpecScheduler == InitReminder /\ [][NextScheduler]_vars /\ WF_vars(run_pending)

(***************************************************************************)
(* Properties of the notification manager.                                 *)
(***************************************************************************)
ReminderCall == ret.op = "send_daily_reminder"

\* C1: on one calendar day at most one budget alert is dispatched per
\* category, however often check_and_send_budget_alerts runs.
C1_OneAlertPerCategoryPerDay ==
    \A k \in DOMAIN alerts : alerts[k] <= 1

\* C2: at most one daily reminder is dispatched per calendar day; a call
\* that finds last_daily_reminder equal to today dispatches nothing and
\* returns False; a call that finds an earlier date or none dispatches, and
\* on success stores today's date; a new day needs no reset.
C2_OneReminderPerDay ==
    /\ [](\A d \in Days : reminders[d] <= 1)
    /\ [][ ReminderCall' =>
             IF SentToday(last_notification, "last_daily_reminder", TodayText(now))
             THEN /\ ret'.val = FALSE
                  /\ UNCHANGED << reminders, last_notification >>
             ELSE /\ ret'.val = TRUE =>
                        /\ reminders' = [ reminders EXCEPT ![now] = reminders[now] + 1 ]
                        /\ SentToday(last_notification', "last_daily_reminder", TodayText(now))
                  /\ ret'.val = FALSE => reminders' = reminders ]_vars

\* a reminder went out on two consecutive days and the second call of the
\* second day was refused
C2_Witness ==
    /\ now = NumDays
    /\ reminders[NumDays - 1] = 1
    /\ reminders[NumDays] = 1
    /\ ReminderCall /\ ret.val = FALSE

\* C3: the stored state of a key changes only in a call whose dispatch
\* succeeded; after a failed dispatch it is unchanged and the reminder is
\* still due on that day.
C3_MarkedOnlyAfterSuccess ==
    /\ [][ last_notification' # last_notification =>
             ReminderCall' /\ ret'.val = TRUE ]_vars
    /\ [][ (ReminderCall' /\ ret'.val = FALSE /\ should_send_daily_reminder) =>
             (last_notification' = last_notification /\ should_send_daily_reminder') ]_vars

\* a dispatch failed on a day on which no reminder was sent, and the
\* reminder is still due
C3_Witness ==
    /\ ReminderCall /\ ret.val = FALSE
    /\ reminders[now] = 0
    /\ should_send_daily_reminder

ClassifyLimits == { 0, 50, 100, 100000 }

ClassifySpent ==
    { 0, 39, 40, 49, 50, 79, 80, 99, 100, 150, 79900, 80000, 99999, 100000, 150000 }

\* one budget status row to classify
InitClassify ==
    /\ EmptyStore
    /\ NothingSent
    /\ now = NumDays
    /\ \E c \in { "Food" }, l \in ClassifyLimits, s \in ClassifySpent :
          ret = [ op |-> "input", args |-> [ category |-> c, spent |-> s, limit |-> l ],
                  raised |-> NoError, val |-> None, again |-> FALSE ]

NextClassify ==
    /\ ret.op = "input"
    /\ \/ \E success \in BOOLEAN :
             send_budget_alert(ret.args.category, ret.args.spent, ret.args.limit, success)
       \/ classify_budget_status(ret.args.category, ret.args.spent, ret.args.limit)
       \/ budget_getters(ret.args.category, ret.args.spent, ret.args.limit)

SpecClassify == InitClassify /\ [][NextClassify]_vars

(***************************************************************************)
(* Properties of the ledger, the budgets and the goals.                    *)
(***************************************************************************)
\* calendar year and month a stored ISO date names
YearOf(date) ==
    (date[1] - 48) * 1000 + (date[2] - 48) * 100 + (date[3] - 48) * 10 + (date[4] - 48)

MonthOf(date) == (date[6] - 48) * 10 + (date[7] - 48)

DatedIn(year, month) ==
    { r \in transactions : YearOf(r.date) = year /\ MonthOf(r.date) = month }

\* C4: get_monthly_summary returns the sum of the Income amounts and the
\* sum of the Expense amounts of the transactions dated in the month, and
\* their difference as balance; all three are 0 for a month without rows.
C4_MonthlySummary ==
    ret.op = "get_monthly_summary" =>
        LET rows == DatedIn(ret.args.year, ret.args.month)
        IN  /\ ret.val.income = Total({ r \in rows : r.type = "Income" })
            /\ ret.val.expense = Total({ r \in rows : r.type = "Expense" })
            /\ ret.val.balance = ret.val.income - ret.val.expense
            /\ rows = {} => ret.val = [ income |-> 0, expense |-> 0, balance |-> 0 ]

\* the summary of December 2024 with an income and an expense in the month
C4_Witness ==
    /\ ret.op = "get_monthly_summary"
    /\ ret.args = [ year |-> 2024, month |-> 12 ]
    /\ ret.val.income > 0
    /\ ret.val.expense > 0
    /\ ret.val.balance = ret.val.income - ret.val.expense

\* C5: get_budget_status returns one row per budget in category order, with
\* spent 0 for a budget without matching expense in the month, and no row
\* for a category without budget.
C5_BudgetStatusRows ==
    ret.op = "get_budget_status" =>
        LET status == ret.val
            matching(c) == { t \in DatedIn(ret.args.year, ret.args.month) :
                               t.category = c /\ t.type = "Expense" }
        IN  /\ Len(status) = Cardinality(budgets)
            /\ \A b \in budgets : \E i \in DOMAIN status :
                   /\ status[i].category = b.category
                   /\ status[i].limit_amount = b.limit_amount
            /\ \A i, j \in DOMAIN status :
                   i < j => CategoryRank[status[i].category] < CategoryRank[status[j].category]
            /\ \A i \in DOMAIN status :
                   matching(status[i].category) = {} => status[i].spent = 0
            /\ \A i \in DOMAIN status :
                   \E b \in budgets : b.category = status[i].category

\* a status with a budget that has no expense in the month, while a
\* category without budget has one
C5_Witness ==
    /\ ret.op = "get_budget_status"
    /\ \E i \in DOMAIN ret.val : ret.val[i].spent = 0
    /\ \E t \in DatedIn(ret.args.year, ret.args.month) :
          /\ t.type = "Expense"
          /\ \A b \in budgets : b.category # t.category

C7_GoalGetters ==
    \A g \in savings_goals :
        LET p == progress_percentage(g)
        IN  /\ 0 <= p.num /\ p.num <= 100 * p.den
            /\ g.target_amount = 0 => p.num = 0
            /\ remaining_amount(g) >= 0
            /\ is_completed(g) <=> g.current_amount >= g.target_amount

\* C8: there is at most one budget per category, and after add_budget(c, l)
\* the one budget of c has limit l.
C8_OneBudgetPerCategory ==
    /\ \A a, b \in budgets : a.category = b.category => a = b
    /\ ret.op = "add_budget" =>
          \A b \in budgets : b.category = ret.args.category =>
                                  b.limit_amount = ret.args.limit_amount
    /\ ret.op = "add_budget" => \E b \in budgets : b.category = ret.args.category

\* add_budget on a category whose earlier budget had another id
C8_Witness ==
    /\ ret.op = "add_budget"
    /\ Cardinality(budgets) = 1
    /\ budgets_seq = 2

\* C9: every add_transaction call returns an id, larger than every id the
\* table held or handed out before, deleted rows included.
C9_FreshIncreasingIds ==
    [][ ret'.op = "add_transaction" =>
           /\ ret'.raised = NoError
           /\ ret'.val > Max(RowIds(transactions) \cup { transactions_seq }) ]_vars

\* C10: update_transaction and delete_transaction on an id no row has
\* complete without failure and leave the store unchanged.
C10_MissingIdIsNoOp ==
    [][ (/\ ret'.op \in { "update_transaction", "delete_transaction" }
         /\ ret'.args.id \notin RowIds(transactions)) =>
           (ret'.raised = NoError /\ UNCHANGED store) ]_vars

(***************************************************************************)
(* Properties of the budget alert pass.                                    *)
(***************************************************************************)
\* expenses of a category dated in the month of the current day
SpentToday(c) ==
    Total({ t \in DatedIn(Clock[now].year, Clock[now].month) :
              t.category = c /\ t.type = "Expense" })

\* alert state of a category on the current day, from the stored rows
StateToday(c) ==
    IF \A b \in budgets : b.category # c THEN "none"
    ELSE LET limit == (CHOOSE b \in budgets : b.category = c).limit_amount
         IN  IF limit <= 0 THEN "none"
             ELSE IF SpentToday(c) * 100 >= 100 * limit THEN "exceeded"
             ELSE IF SpentToday(c) * 100 >= 80 * limit THEN "warning"
             ELSE "none"

PassCall == ret.op = "check_and_send_budget_alerts"

\* C13: a pass hands the alert of every budget in warning or exceeded
\* state to the transport, whatever the transport answered for the others;
\* each dispatch is accepted or refused, the pass raises nothing, and the
\* count it returns is the number of accepted dispatches.
C13_FailureDoesNotAbortPass ==
    [][ PassCall' =>
          LET accepted == { c \in Categories :
                              alerts'[<< c, now >>] = alerts[<< c, now >>] + 1 }
          IN  /\ ret'.raised = NoError
              /\ ret'.args.alerting = { c \in Categories : StateToday(c) # "none" }
              /\ accepted \subseteq ret'.args.alerting
              /\ \A k \in DOMAIN alerts :
                     alerts'[k] = alerts[k] \/ (k[2] = now /\ k[1] \in accepted)
              /\ ret'.val = Cardinality(accepted) ]_vars

\* the dispatch for Bills, first in category order, was refused and the
\* one for Food was accepted in the same pass
C13_Witness ==
    /\ PassCall
    /\ ret.args.alerting = { "Bills", "Food" }
    /\ ret.val = 1
    /\ alerts[<< "Bills", now >>] = 0
    /\ alerts[<< "Food", now >>] = 1

\* C14: a budget in warning or exceeded state has its alert dispatched in
\* every pass, also when an alert of another category was accepted earlier
\* that day or in the same pass.
C14_AlertsPerCategory ==
    [][ PassCall' =>
          \A c \in Categories :
              (/\ StateToday(c) # "none"
               /\ \E d \in Categories \ { c } : alerts'[<< d, now >>] > 0) =>
                  c \in ret'.args.alerting ]_vars

\* both budgets alert; one alert was accepted in an earlier pass of the
\* day, the other one in this pass
C14_Witness ==
    /\ PassCall
    /\ ret.val = 1
    /\ StateToday("Bills") # "none"
    /\ StateToday("Food") # "none"
    /\ alerts[<< "Bills", now >>] = 1
    /\ alerts[<< "Food", now >>] = 1

\* C15: a pass dispatches no alert for a category that is exceeded now and
\* for which a warning alert was already accepted on the same day.
C15_OncePerDayAfterEscalation ==
    [][ PassCall' =>
          \A c \in Categories :
              (warned[<< c, now >>] /\ StateToday(c) = "exceeded") =>
                  alerts'[<< c, now >>] = alerts[<< c, now >>] ]_vars

DayOf(date) == (date[9] - 48) * 10 + (date[10] - 48)

\* a date as the number yyyymmdd
DateNumber(date) == YearOf(date) * 10000 + MonthOf(date) * 100 + DayOf(date)

\* C17: get_all_transactions returns each stored row that matches every
\* supplied filter exactly once and no other row; a row dated exactly
\* start_date or end_date matches; an omitted filter does not restrict;
\* the rows come newest date first.
C17_ListTransactions ==
    ret.op = "get_all_transactions" =>
        LET a == ret.args
            matching ==
                { r \in transactions :
                    /\ a.start_date # << >> => DateNumber(r.date) >= DateNumber(a.start_date)
                    /\ a.end_date # << >> => DateNumber(r.date) <= DateNumber(a.end_date)
                    /\ a.category # None => r.category = a.category
                    /\ a.type # None => r.type = a.type }
        IN  /\ { ret.val[i] : i \in DOMAIN ret.val } = matching
            /\ Len(ret.val) = Cardinality(matching)
            /\ \A i, j \in DOMAIN ret.val :
                   i < j => DateNumber(ret.val[i].date) >= DateNumber(ret.val[j].date)

\* a list from start_date to a later end_date that holds a row dated
\* end_date first and a row dated start_date second
C17_Witness ==
    /\ ret.op = "get_all_transactions"
    /\ ret.args.start_date # << >>
    /\ ret.args.end_date # << >>
    /\ Len(ret.val) = 2
    /\ ret.val[1].date = ret.args.end_date
    /\ ret.val[2].date = ret.args.start_date
    /\ ret.args.start_date # ret.args.end_date

\* C19: every mutation that returned has its effect in the store, and the
\* value of the last read is the one the current store gives: the monthly
\* summary, the budget status, the transaction list and the goal list hold
\* exactly what the stored rows say.
C19_ReadYourWrites ==
    /\ [][ ret'.raised = NoError =>
             /\ ret'.op = "add_transaction" =>
                    \E r \in transactions' :
                        /\ r.id = ret'.val
                        /\ r.date = ret'.args.date
                        /\ r.amount = ret'.args.amount
             /\ ret'.op = "update_transaction" =>
                    \A r \in transactions' :
                        r.id = ret'.args.id => r.amount = ret'.args.amount
             /\ ret'.op = "delete_transaction" =>
                    ret'.args.id \notin RowIds(transactions')
             /\ ret'.op = "add_budget" =>
                    \E b \in budgets' :
                        /\ b.category = ret'.args.category
                        /\ b.limit_amount = ret'.args.limit_amount
             /\ ret'.op = "delete_budget" => ret'.args.id \notin RowIds(budgets')
             /\ ret'.op = "update_savings_goal_amount" =>
                    \A g \in savings_goals' :
                        g.id = ret'.args.id => g.current_amount = ret'.args.current_amount
       ]_vars
    /\ [](ret.raised = NoError =>
             /\ ret.op = "get_monthly_summary" =>
                    LET rows == DatedIn(ret.args.year, ret.args.month)
                    IN  /\ ret.val.income = Total({ r \in rows : r.type = "Income" })
                        /\ ret.val.expense = Total({ r \in rows : r.type = "Expense" })
             /\ ret.op = "get_budget_status" =>
                    /\ { [ id |-> ret.val[i].id, category |-> ret.val[i].category,
                           limit_amount |-> ret.val[i].limit_amount ] :
                             i \in DOMAIN ret.val } = budgets
                    /\ \A i \in DOMAIN ret.val :
                           ret.val[i].spent =
                               Total({ t \in DatedIn(ret.args.year, ret.args.month) :
                                         /\ t.category = ret.val[i].category
                                         /\ t.type = "Expense" })
             /\ ret.op = "get_all_transactions" =>
                    { ret.val[i] : i \in DOMAIN ret.val } = transactions
             /\ ret.op = "get_all_savings_goals" =>
                    { ret.val[i] : i \in DOMAIN ret.val } = savings_goals)

\* the list read after the second of two rows was deleted
C19_Witness ==
    /\ ret.op = "get_all_transactions"
    /\ transactions_seq = 2
    /\ Len(ret.val) = 1
    /\ ret.val[1].id = 1

\* C12: for every month the two reads count the rows dated from the first
\* day of the month up to, and not including, the first day of the next
\* month, which for December is January 1 of the next year: a row dated on
\* the last day of the month is counted, a row dated on the first day of
\* the next month is not.
C12_MonthWindow ==
    ret.op \in { "get_monthly_summary", "get_budget_status" } =>
        LET y == ret.args.year
            m == ret.args.month
            counted == { r \in transactions :
                           /\ DateNumber(r.date) >= y * 10000 + m * 100 + 1
                           /\ DateNumber(r.date) <
                                  (IF m = 12 THEN (y + 1) * 10000 + 101
                                   ELSE y * 10000 + (m + 1) * 100 + 1) }
        IN  /\ \A r \in transactions :
                   /\ r.date = LastDayOfMonth(y, m) => r \in counted
                   /\ r.date = FirstDayOfNextMonth(y, m) => r \notin counted
            /\ ret.op = "get_monthly_summary" =>
                   ret.val.expense = Total({ r \in counted : r.type = "Expense" })
            /\ ret.op = "get_budget_status" =>
                   \A i \in DOMAIN ret.val :
                       ret.val[i].spent =
                           Total({ r \in counted : /\ r.type = "Expense"
                                                   /\ r.category = ret.val[i].category })

\* the status of December 2024 with one expense on December 31 and one on
\* January 1: only the first is counted
C12_Witness ==
    /\ ret.op = "get_budget_status"
    /\ ret.args = [ year |-> 2024, month |-> 12 ]
    /\ \E r \in transactions : r.date = IsoDate(2024, 12, 31) /\ r.amount = 40
    /\ \E r \in transactions : r.date = IsoDate(2025, 1, 1) /\ r.amount = 50
    /\ ret.val[1].spent = 40

WritesPositiveNumber(text) ==
    LET inked  == { i \in DOMAIN text : text[i] # Space }
        first  == CHOOSE i \in inked : \A j \in inked : i <= j
        last   == CHOOSE i \in inked : \A j \in inked : j <= i
        start  == IF text[first] = "+" THEN first + 1 ELSE first
    IN  /\ inked # {}
        /\ start <= last
        /\ \A i \in start..last : text[i] \in { "0", "1", "2", "3", "4", "5", "6", "7", "8", "9" }
        /\ \E i \in start..last : text[i] # "0"

C21_RoundTrip ==
    [][ ret'.op = "add_transaction" =>
           /\ ret'.raised = NoError
           /\ Cardinality({ r \in transactions' : r.id = ret'.val }) = 1
           /\ \A r \in transactions' :
                 r.id = ret'.val =>
                    /\ r.date = ret'.args.date
                    /\ r.type = ret'.args.type
                    /\ r.category = ret'.args.category
                    /\ r.amount = ret'.args.amount
                    /\ "description" \in DOMAIN r
                    /\ r.description = ret'.args.description ]_vars

(***************************************************************************)
(* Properties of the savings goals.                                        *)
(***************************************************************************)
\* C22: no two savings goals share an id or a name; add_savings_goal with
\* an unused name returns the id of the goal it adds, with a name in use
\* it fails and leaves the goals unchanged; delete_savings_goal removes
\* exactly the goal of the id passed.
C22_GoalIdsAndNames ==
    /\ [](\A g, h \in savings_goals : (g.id = h.id \/ g.name = h.name) => g = h)
    /\ [][ /\ ret'.op = "add_savings_goal" =>
                IF \E g \in savings_goals : g.name = ret'.args.name
                THEN ret'.raised # NoError /\ savings_goals' = savings_goals
                ELSE /\ ret'.raised = NoError
                     /\ ret'.val \notin RowIds(savings_goals)
                     /\ \E g \in savings_goals' :
                           /\ g.id = ret'.val
                           /\ g.name = ret'.args.name
                           /\ savings_goals' = savings_goals \cup { g }
           /\ ret'.op = "delete_savings_goal" =>
                savings_goals' = { g \in savings_goals : g.id # ret'.args.id } ]_vars

(***************************************************************************)
(* Properties of executions of the notification pass that overlap.         *)
(***************************************************************************)
\* C23: when two executions of send_daily_reminder interleave on one day
\* against the same last_notification.json, at most one reminder of that
\* day is dispatched.
C23_AtMostOneWhenInterleaved == reminders[now] <= 1

CalendarDates ==
    { c \in [ year : 2024..2026, month : 1..12, day : 1..31 ] :
        c.day <= ( IF c.month \in { 4, 6, 9, 11 } THEN 30
                   ELSE IF c.month # 2 THEN 31
                   ELSE IF c.year = 2024 THEN 29 ELSE 28 ) }

Earlier(a, b) ==
    \/ a.year < b.year
    \/ a.year = b.year /\ a.month < b.month
    \/ a.year = b.year /\ a.month = b.month /\ a.day < b.day

\* days from the first day of 2024 to a day, counted one by one
DayCount(date) == Cardinality({ c \in CalendarDates : Earlier(c, date) })

\* the texts that write a day as year-month-day, the month and the day
\* with or without a leading zero
Writings(date) ==
    { Fmt04d(date.year) \o << Dash >> \o m \o << Dash >> \o d :
        m \in { Fmt02d(date.month) }
                \cup ( IF date.month < 10 THEN { << Digit(date.month) >> } ELSE {} ),
        d \in { Fmt02d(date.day) }
                \cup ( IF date.day < 10
                       THEN { << Digit(date.day) >>, << 32, Digit(date.day) >> }
                       ELSE {} ) }

Today == [ year |-> Clock[now].year, month |-> Clock[now].month, day |-> Clock[now].day ]

\* C25: days_remaining and calculate_days_until_deadline return the days
\* from today to the deadline, 0 when the deadline is today or has passed,
\* and 0 for a deadline that is NULL or writes no day; they never return a
\* negative number.
C25_DaysRemaining ==
    ret.op = "days_left" =>
        \A v \in { ret.val.days_remaining, ret.val.calculate_days_until_deadline } :
            LET deadline == ret.args.deadline
                written  == { c \in CalendarDates :
                                ~deadline.null /\ deadline.text \in Writings(c) }
            IN  /\ ret.raised = NoError
                /\ v >= 0
                /\ \A c \in written :
                       v = IF Earlier(Today, c) THEN DayCount(c) - DayCount(Today) ELSE 0
                /\ written = {} => v = 0

\* a goal whose deadline passed 62 days ago has 0 days remaining
C25_Witness ==
    /\ ret.op = "days_left"
    /\ now = NumDays
    /\ ~ret.args.deadline.null
    /\ ret.args.deadline.text = TodayText(1)
    /\ ret.val.days_remaining = 0
    /\ ret.val.calculate_days_until_deadline = 0

C27_PassLeavesStore ==
    [][ (ReminderCall' \/ PassCall') =>
           /\ UNCHANGED store
           /\ last_notification' # last_notification =>
                  \/ ReminderCall' /\ ret'.val = TRUE /\ reminders'[now] = reminders[now] + 1
                  \/ PassCall' /\ ret'.val > 0 ]_vars

\* a reminder went out and was marked with a transaction and a budget stored
C27_Witness ==
    /\ ReminderCall /\ ret.val = TRUE
    /\ transactions # {}
    /\ budgets # {}
    /\ SentToday(last_notification, "last_daily_reminder", TodayText(now))

(***************************************************************************)
(* Properties of the update and the deletion of a transaction.             *)
(***************************************************************************)
\* C28: update_transaction and delete_transaction on the id of a stored
\* row complete, and touch that row only: update leaves a row of the
\* same id with the date, type, category, amount and description passed,
\* delete leaves no row of the id; the other transactions, the budgets
\* and the goals are as before.
C28_OnlyThatRow ==
    [][ (/\ ret'.op \in { "update_transaction", "delete_transaction" }
         /\ ret'.args.id \in RowIds(transactions)) =>
           /\ ret'.raised = NoError
           /\ { r \in transactions' : r.id # ret'.args.id }
                  = { r \in transactions : r.id # ret'.args.id }
           /\ UNCHANGED << budgets, budgets_seq, savings_goals, savings_goals_seq >>
           /\ ret'.op = "delete_transaction" => ret'.args.id \notin RowIds(transactions')
           /\ ret'.op = "update_transaction" =>
                  \E r \in transactions' :
                      /\ r.id = ret'.args.id
                      /\ r.date = ret'.args.date
                      /\ r.type = ret'.args.type
                      /\ r.category = ret'.args.category
                      /\ r.amount = ret'.args.amount
                      /\ "description" \in DOMAIN r
                      /\ r.description = ret'.args.description ]_vars

(***************************************************************************)
(* Properties of the notification state.                                   *)
(***************************************************************************)
\* C30: mark_notification_sent(k) leaves last_notification.json holding
\* today's date under k and, under every other key it held, the date it
\* held; when the file did not exist it holds k only.
C30_MarkSetsOneKey ==
    [][ ret'.op = "mark_notification_sent" =>
           LET k    == ret'.args.notification_type
               held == IF last_notification.exists THEN DOMAIN last_notification.data
                       ELSE {}
           IN  /\ last_notification'.exists
               /\ DOMAIN last_notification'.data = held \cup { k }
               /\ last_notification'.data[k] = TodayText(now)
               /\ \A j \in held \ { k } :
                      last_notification'.data[j] = last_notification.data[j] ]_vars

\* a key marked today in a file that keeps another key's earlier date
C30_Witness ==
    /\ ret.op = "mark_notification_sent"
    /\ last_notification.exists
    /\ \E j \in DOMAIN last_notification.data :
          /\ j # ret.args.notification_type
          /\ last_notification.data[j] # TodayText(now)
    /\ last_notification.data[ret.args.notification_type] = TodayText(now)

=============================================================================
